---- MODULE Spec2Model ----
(***************************************************************************)
(* Model of lib/spectests/build/spectests.rs: the generator that turns a   *)
(* .wast command stream into Rust test code (WastTestGenerator), and the   *)
(* build loop that writes one namespaced block per script.                 *)
(*                                                                         *)
(* The output buffer (a String in the code) is kept as the sequence of the *)
(* fragments pushed onto it, each fragment holding the identifiers that    *)
(* the pushed text contains; identifiers are built as strings, the way     *)
(* format! builds them.                                                    *)
(***************************************************************************)
EXTENDS Integers, Sequences, FiniteSets, TLC

VARIABLES
    tests,          \* build: the TESTS list
    test_no,        \* build: the entry of TESTS the loop is at
    out,            \* build: the chunks written to the output file so far
    pc,             \* where the build is: "start", "loop", "new", "consume", "consumed", "done" (Ok), "failed" (Err), "aborted" (panic)
    script_parser,  \* WastTestGenerator.script_parser: the parse results and the cursor
    last_module,    \* WastTestGenerator.last_module
    last_line,      \* WastTestGenerator.last_line
    command_no,     \* WastTestGenerator.command_no
    module_calls,   \* WastTestGenerator.module_calls: index -> names pending
    buffer,         \* WastTestGenerator.buffer: the fragments pushed so far
    out_dir,        \* environment: "ok", "unset" (no OUT_DIR) or "uncreatable" (File::create fails)
    io,             \* environment: the outcomes of the next calls of write ("ok", "short", "err"); "ok" beyond its end
    diagnostics,    \* build: what the build has printed or logged so far
    value,          \* codec: the Value or float a function of the codec is applied to
    result          \* codec: the function applied last and what it returned

vars == <<tests, test_no, out, pc, script_parser, last_module, last_line, command_no,
          module_calls, buffer, out_dir, io, diagnostics, value, result>>

-----------------------------------------------------------------------------
(* Bounds of the model *)

\* longest command stream of a script of Spec
MaxLen == 3
\* longest command stream of a script of SpecBuild
MaxBuildLen == 1
\* most scripts in the TESTS list of SpecBuild
MaxTests == 2
\* how far below and above the fat threshold the streams of SpecFat reach
FatMargin == 1
\* most commands after the first two of a script of SpecTail
MaxTail == 2
\* the call of write at which the output file has its fault, at most
MaxFaultAt == 4

-----------------------------------------------------------------------------
(* Values, actions and commands (wabt::script) *)

I32(v) == [ty |-> "I32", v |-> v]
I64(v) == [ty |-> "I64", v |-> v]
\* a 32-bit float by its fields: 1 sign bit, 8 exponent bits, 23 mantissa bits
F32(sign, exp, man) == [ty |-> "F32", sign |-> sign, exp |-> exp, man |-> man]
\* a 64-bit float by its fields: 1 sign bit, 11 exponent bits, and the 52
\* mantissa bits as two halves of 26 bits
F64(sign, exp, hi, lo) ==
    [ty |-> "F64", sign |-> sign, exp |-> exp, hi |-> hi, lo |-> lo]

Invoke(field, args) == [variant |-> "Invoke", field |-> field, args |-> args]
Get(field) == [variant |-> "Get", field |-> field, args |-> <<>>]
NoAction == [variant |-> "None", field |-> "", args |-> <<>>]

\* one parse result of ScriptParser::next: a command kind with its payload;
\* kind "ParseError" stands for the Err result
Kind(kind, decodes, action, expected) ==
    [kind |-> kind, decodes |-> decodes, action |-> action, expected |-> expected]

ModuleOk == Kind("Module", TRUE, NoAction, <<>>)
ModuleUndecodable == Kind("Module", FALSE, NoAction, <<>>)
ParseError == Kind("ParseError", TRUE, NoAction, <<>>)

ActionKinds ==
    { Kind("AssertReturn", TRUE, Invoke("add", <<I32(2), I32(3)>>), <<I32(5)>>),
      Kind("AssertReturn", TRUE, Invoke("nop", <<>>), <<>>),
      Kind("AssertReturn", TRUE, Get("g"), <<I32(5)>>),
      Kind("AssertReturnCanonicalNan", TRUE, Invoke("f32.neg", <<F32(0, 255, 4194304)>>), <<>>),
      Kind("AssertReturnCanonicalNan", TRUE, Invoke("nan0", <<>>), <<>>),
      Kind("AssertReturnCanonicalNan", TRUE, Invoke("f64.promote_f32", <<>>), <<>>),
      Kind("AssertReturnArithmeticNan", TRUE, Invoke("nan0", <<>>), <<>>),
      Kind("AssertTrap", TRUE, Invoke("div", <<I32(1), I32(0)>>), <<>>),
      Kind("AssertTrap", TRUE, Get("g"), <<>>),
      Kind("PerformAction", TRUE, Invoke("nop", <<>>), <<>>) }

BinaryKinds ==
    { Kind("AssertInvalid", TRUE, NoAction, <<>>),
      Kind("AssertMalformed", TRUE, NoAction, <<>>) }

IgnoredKinds ==
    { Kind("AssertUninstantiable", TRUE, NoAction, <<>>),
      Kind("AssertExhaustion", TRUE, Invoke("rec", <<>>), <<>>),
      Kind("AssertUnlinkable", TRUE, NoAction, <<>>),
      Kind("Register", TRUE, NoAction, <<>>) }

Kinds == {ModuleOk, ModuleUndecodable, ParseError}
            \cup ActionKinds \cup BinaryKinds \cup IgnoredKinds

\* return assertions over more shapes of the expected sequence: two values,
\* a NaN of either width first, a finite float, an infinity
ValueKinds ==
    { Kind("AssertReturn", TRUE, Invoke("pair", <<>>), <<I32(1), I64(2)>>),
      Kind("AssertReturn", TRUE, Invoke("f32.nan", <<>>), <<F32(0, 255, 4194304)>>),
      Kind("AssertReturn", TRUE, Invoke("f64.nan", <<F64(0, 1023, 0, 0)>>),
           <<F64(1, 2047, 33554432, 1)>>),
      Kind("AssertReturn", TRUE, Invoke("f32.half", <<F32(0, 127, 0)>>),
           <<F32(0, 126, 0)>>),
      Kind("AssertReturn", TRUE, Invoke("f64.inf", <<>>), <<F64(1, 2047, 0, 0)>>) }

\* where the commands of a script sit in its source: two commands per line
LineAt(k) == (k + 1) \div 2

Command(k, kd) ==
    [line |-> LineAt(k), kind |-> kd.kind, decodes |-> kd.decodes,
     action |-> kd.action, expected |-> kd.expected]

SeqsUpTo(S, n) == UNION {[1..m -> S] : m \in 0..n}

\* the parse results of a stream end with its first Err
EndsAtError(ks) == \A k \in 1..Len(ks) : ks[k].kind = "ParseError" => k = Len(ks)

\* a script: whether its source can be read and pre-parsed, and the parse
\* results its parser then yields
Script(readable, kinds) ==
    [readable |-> readable,
     stream |-> [k \in 1..Len(kinds) |-> Command(k, kinds[k])]]

ScriptsOver(S, n) ==
    {Script(TRUE, ks) : ks \in {s \in SeqsUpTo(S, n) : EndsAtError(s)}}
        \cup {Script(FALSE, <<>>)}

\* a script of n commands, all of one kind
Uniform(kd, n) == Script(TRUE, [k \in 1..n |-> kd])

\* TESTS entries: the script and the test name derived from its path
Entry(i, s) == [name |-> "t" \o ToString(i), script |-> s]

-----------------------------------------------------------------------------
(* Value codec *)

\* the threshold of is_fat_test
FatLimit == 200

\* f32::is_nan, f64::is_nan: the exponent all ones and the mantissa not zero
is_nan_float(v) ==
    IF v.ty = "F32" THEN v.exp = 255 /\ v.man # 0
    ELSE v.exp = 2047 /\ (v.hi # 0 \/ v.lo # 0)

\* f32::is_infinite, f64::is_infinite
is_infinite(v) ==
    IF v.ty = "F32" THEN v.exp = 255 /\ v.man = 0
    ELSE v.exp = 2047 /\ v.hi = 0 /\ v.lo = 0

Pad4(n) ==
    IF n < 10 THEN "000" \o ToString(n)
    ELSE IF n < 100 THEN "00" \o ToString(n)
    ELSE IF n < 1000 THEN "0" \o ToString(n)
    ELSE ToString(n)

Pad5(n) ==
    IF n < 10 THEN "0000" \o ToString(n)
    ELSE IF n < 100 THEN "000" \o ToString(n)
    ELSE IF n < 1000 THEN "00" \o ToString(n)
    ELSE IF n < 10000 THEN "0" \o ToString(n)
    ELSE ToString(n)

\* a u64 as five decimal limbs of four digits, the least significant first:
\* the limbs of L * k + a
MulAdd(L, k, a) ==
    LET t1 == L[1] * k + a
        t2 == L[2] * k + t1 \div 10000
        t3 == L[3] * k + t2 \div 10000
        t4 == L[4] * k + t3 \div 10000
        t5 == L[5] * k + t4 \div 10000
    IN  <<t1 % 10000, t2 % 10000, t3 % 10000, t4 % 10000, t5 % 10000>>

RECURSIVE LowLimbs(_, _)
LowLimbs(L, j) == IF j = 0 THEN "" ELSE Pad4(L[j]) \o LowLimbs(L, j - 1)

\* the decimal text of a number held in decimal limbs, without leading zeros
LimbsText(L) ==
    LET top == IF \E j \in 1..5 : L[j] # 0
               THEN CHOOSE j \in 1..5 : L[j] # 0 /\ \A i \in (j + 1)..5 : L[i] = 0
               ELSE 1
    IN  ToString(L[top]) \o LowLimbs(L, top - 1)

\* {:?} of f32::to_bits and f64::to_bits: the decimal text of the bit pattern.
\* 32 bits: sign * 2^31 + exp * 2^23 + man, in two decimal limbs of five digits;
\* 64 bits: ((sign * 2^11 + exp) * 2^26 + hi) * 2^26 + lo, in limbs of four
to_bits_text(v) ==
    IF v.ty = "F32"
    THEN LET low31 == v.exp * 8388608 + v.man
             lo == (low31 % 100000) + 83648 * v.sign
             hi == (low31 \div 100000) + 21474 * v.sign + (lo \div 100000)
         IN  IF hi = 0 THEN ToString(lo) ELSE ToString(hi) \o Pad5(lo % 100000)
    ELSE LET top == MulAdd(<<0, 0, 0, 0, 0>>, 0, v.sign * 2048 + v.exp)
             mid == MulAdd(MulAdd(top, 8192, 0), 8192, v.hi)
         IN  LimbsText(MulAdd(MulAdd(mid, 8192, 0), 8192, v.lo))

\* the value of a finite float counted in quarters, for the floats whose text
\* the model computes: zero, and the multiples of 1/4 from 1/4 to below 2048;
\* -1 for every other float
Quarters(v) ==
    LET bias == IF v.ty = "F32" THEN 127 ELSE 1023
        width == IF v.ty = "F32" THEN 23 ELSE 26
        frac == IF v.ty = "F32" THEN v.man ELSE v.hi
        rest == IF v.ty = "F32" THEN 0 ELSE v.lo
        p == v.exp - bias
    IN  IF v.exp = 0 /\ frac = 0 /\ rest = 0 THEN 0
        ELSE IF p >= -2 /\ p <= 10 /\ rest = 0 /\ frac % (2^(width - 2 - p)) = 0
             THEN (2^width + frac) \div (2^(width - 2 - p))
        ELSE -1

\* {:?} of a finite f32 or f64: the shortest decimal that reads back as the
\* same float, which for a multiple of 1/4 is its exact decimal expansion
finite_text(v) ==
    LET q == Quarters(v)
    IN  CASE q >= 0 ->
            (IF v.sign = 1 THEN "-" ELSE "") \o ToString(q \div 4) \o "."
                \o (CASE q % 4 = 0 -> "0"
                      [] q % 4 = 1 -> "25"
                      [] q % 4 = 2 -> "5"
                      [] q % 4 = 3 -> "75")

is_nan(v) == v.ty \in {"F32", "F64"} /\ is_nan_float(v)

wabt2rust_type(v) ==
    CASE v.ty = "I32" -> "i32"
      [] v.ty = "I64" -> "i64"
      [] v.ty = "F32" -> "f32"
      [] v.ty = "F64" -> "f64"

wabt2rust_type_destructure(v, placeholder) ==
    "Value::" \o v.ty \o "(" \o placeholder \o ")"

wabt2rust_value_bare(v) ==
    CASE v.ty = "I32" -> ToString(v.v) \o " as i32"
      [] v.ty = "I64" -> ToString(v.v) \o " as i64"
      [] v.ty = "F32" ->
            IF is_infinite(v)
            THEN (IF v.sign = 1 THEN "f32::NEG_INFINITY" ELSE "f32::INFINITY")
            ELSE IF is_nan_float(v)
            THEN "f32::from_bits(" \o to_bits_text(v) \o ")"
            ELSE finite_text(v)
      [] v.ty = "F64" ->
            IF is_infinite(v)
            THEN (IF v.sign = 1 THEN "f64::NEG_INFINITY" ELSE "f64::INFINITY")
            ELSE IF is_nan_float(v)
            THEN "f64::from_bits(" \o to_bits_text(v) \o ")"
            ELSE finite_text(v)

wabt2rust_value(v) ==
    CASE v.ty = "I32" -> "Value::I32(" \o ToString(v.v) \o " as i32)"
      [] v.ty = "I64" -> "Value::I64(" \o ToString(v.v) \o " as i64)"
      [] v.ty = "F32" ->
            IF is_infinite(v)
            THEN (IF v.sign = 1 THEN "Value::F32(f32::NEG_INFINITY)"
                                ELSE "Value::F32(f32::INFINITY)")
            ELSE IF is_nan_float(v)
            THEN "Value::F32(f32::from_bits(" \o to_bits_text(v) \o "))"
            ELSE "Value::F32((" \o finite_text(v) \o "f32))"
      [] v.ty = "F64" ->
            IF is_infinite(v)
            THEN (IF v.sign = 1 THEN "Value::F64(f64::NEG_INFINITY)"
                                ELSE "Value::F64(f64::INFINITY)")
            ELSE IF is_nan_float(v)
            THEN "Value::F64(f64::from_bits(" \o to_bits_text(v) \o "))"
            ELSE "Value::F64((" \o finite_text(v) \o "f64))"

-----------------------------------------------------------------------------
(* NaNCheck: the classification helpers of the shared preamble *)

\* bit i of a number
Bit(n, i) == (n \div (2^i)) % 2

\* f32::to_bits, f64::to_bits: bit i of the pattern at index i
to_bits(v) ==
    IF v.ty = "F32"
    THEN [i \in 0..31 |-> IF i = 31 THEN v.sign
                          ELSE IF i >= 23 THEN Bit(v.exp, i - 23)
                          ELSE Bit(v.man, i)]
    ELSE [i \in 0..63 |-> IF i = 63 THEN v.sign
                          ELSE IF i >= 52 THEN Bit(v.exp, i - 52)
                          ELSE IF i >= 26 THEN Bit(v.hi, i - 26)
                          ELSE Bit(v.lo, i)]

\* an unsigned literal of w bits, from its binary digits as written
Bin(digits, w) ==
    [i \in 0..(w - 1) |-> IF i < Len(digits) THEN digits[Len(digits) - i] ELSE 0]

\* an unsigned literal of w bits, from its hexadecimal digits as written
Hex(digits, w) ==
    [i \in 0..(w - 1) |->
        IF i \div 4 < Len(digits) THEN Bit(digits[Len(digits) - (i \div 4)], i % 4)
        ELSE 0]

\* <<, & and ^ on unsigned integers of one width
Shl(bits, n) == [i \in DOMAIN bits |-> IF i >= n THEN bits[i - n] ELSE 0]
BitAnd(a, b) == [i \in DOMAIN a |-> a[i] * b[i]]
BitXor(a, b) == [i \in DOMAIN a |-> (a[i] + b[i]) % 2]

\* a quiet test that looks at bit 23, the lowest bit of the exponent
f32_is_quiet_nan_bit23(v) ==
    LET bit_mask == Shl(Bin(<<1>>, 32), 23)
    IN  is_nan_float(v) /\ BitAnd(to_bits(v), bit_mask) = bit_mask

\* impl NaNCheck for f32: is_quiet_nan
f32_is_quiet_nan(v) ==
    LET bit_mask == Shl(Bin(<<1>>, 32), 22)
    IN  is_nan_float(v) /\ BitAnd(to_bits(v), bit_mask) = bit_mask

\* a canonical test whose second target is one hexadecimal digit short
f32_is_canonical_nan_short_target(v) ==
    LET bit_mask == Bin(<<1, 0, 0, 0, 0, 0, 0, 0, 0, 0, 1, 1, 1, 1, 1, 1,
                           1, 1, 1, 1, 1, 1, 1, 1, 1, 1, 1, 1, 1, 1, 1, 1>>, 32)
        masked_value == BitXor(to_bits(v), bit_mask)
    IN  \/ masked_value = Hex(<<15, 15, 15, 15, 15, 15, 15, 15>>, 32)
        \/ masked_value = Hex(<<15, 15, 15, 15, 15, 15, 15>>, 32)

\* impl NaNCheck for f32: is_canonical_nan
f32_is_canonical_nan(v) ==
    LET bit_mask == Bin(<<1, 0, 0, 0, 0, 0, 0, 0, 0, 0, 1, 1, 1, 1, 1, 1,
                           1, 1, 1, 1, 1, 1, 1, 1, 1, 1, 1, 1, 1, 1, 1, 1>>, 32)
        masked_value == BitXor(to_bits(v), bit_mask)
    IN  \/ masked_value = Hex(<<15, 15, 15, 15, 15, 15, 15, 15>>, 32)
        \/ masked_value = Hex(<<7, 15, 15, 15, 15, 15, 15, 15>>, 32)

\* impl NaNCheck for f64: is_quiet_nan
f64_is_quiet_nan(v) ==
    LET bit_mask == Shl(Bin(<<1>>, 64), 51)
    IN  is_nan_float(v) /\ BitAnd(to_bits(v), bit_mask) = bit_mask

\* impl NaNCheck for f64: is_canonical_nan; the second target has fifteen
\* hexadecimal digits in the source
f64_is_canonical_nan(v) ==
    LET bit_mask == Bin(<<1, 0, 0, 0, 0, 0, 0, 0, 0, 0, 0, 0, 0, 1, 1, 1,
                           1, 1, 1, 1, 1, 1, 1, 1, 1, 1, 1, 1, 1, 1, 1, 1,
                           1, 1, 1, 1, 1, 1, 1, 1, 1, 1, 1, 1, 1, 1, 1, 1,
                           1, 1, 1, 1, 1, 1, 1, 1, 1, 1, 1, 1, 1, 1, 1, 1>>, 64)
        masked_value == BitXor(to_bits(v), bit_mask)
    IN  \/ masked_value = Hex(<<7, 15, 15, 15, 15, 15, 15, 15,
                                15, 15, 15, 15, 15, 15, 15, 15>>, 64)
        \/ masked_value = Hex(<<15, 15, 15, 15, 15, 15, 15,
                                15, 15, 15, 15, 15, 15, 15, 15>>, 64)

RECURSIVE JoinFrom(_, _, _)
JoinFrom(strs, sep, k) ==
    IF k > Len(strs) THEN ""
    ELSE IF k = Len(strs) THEN strs[k]
    ELSE strs[k] \o sep \o JoinFrom(strs, sep, k + 1)

\* Vec<String>::join
Join(strs, sep) == JoinFrom(strs, sep, 1)

args_values(args) == Join([k \in 1..Len(args) |-> wabt2rust_value(args[k])], ", ")

-----------------------------------------------------------------------------
(* WastTestGenerator *)

\* the generator as a value: its fields, and whether a call has panicked
Gen == [last_module |-> last_module, last_line |-> last_line,
        command_no |-> command_no, module_calls |-> module_calls,
        buffer |-> buffer, panicked |-> FALSE]

\* one piece of text pushed onto the buffer: what it is, the function it
\* defines, the factory it calls, the units it calls, and the rest of its text
Frag(frag, name, creates, calls, detail) ==
    [frag |-> frag, name |-> name, creates |-> creates, calls |-> calls,
     detail |-> detail]

Push(g, f) == [g EXCEPT !.buffer = Append(@, f)]

Panic(g) == [g EXCEPT !.panicked = TRUE]

\* a threshold that already counts the limit itself as fat
is_fat_test_at_limit(g) == g.command_no >= FatLimit

is_fat_test(g) == g.command_no > FatLimit

\* a name built from the module counter instead of the command counter
command_name_by_module(g) ==
    "c" \o ToString(g.last_module) \o "_l" \o ToString(g.last_line)

command_name(g) == "c" \o ToString(g.command_no) \o "_l" \o ToString(g.last_line)

\* module_calls.entry(m).or_insert(Vec::new())
Pending(calls, m) == IF m \in DOMAIN calls THEN calls[m] ELSE <<>>

\* module_calls.entry(self.last_module).or_insert(Vec::new()).push(name)
PushCall(g, name) ==
    LET mc == g.module_calls
        m == g.last_module
    IN  [g EXCEPT !.module_calls =
            [k \in DOMAIN mc \cup {m} |->
                IF k = m THEN Append(Pending(mc, m), name) ELSE mc[k]]]

WrapperFrag(module, calls) ==
    Frag("wrapper", "test_module_" \o ToString(module),
         "create_module_" \o ToString(module), calls, <<>>)

\* a flush that leaves the entry in module_calls
flush_module_calls_keeps_entry(g, module) ==
    LET calls == Pending(g.module_calls, module)
    IN  IF Len(calls) > 0 THEN Push(g, WrapperFrag(module, calls)) ELSE g

\* a flush that writes the wrapper whether or not a call is pending
flush_module_calls_emits_empty(g, module) ==
    LET mc == g.module_calls
        calls == Pending(mc, module)
        g1 == Push(g, WrapperFrag(module, calls))
    IN  [g1 EXCEPT !.module_calls = [k \in DOMAIN mc \ {module} |-> mc[k]]]

flush_module_calls(g, module) ==
    LET mc == g.module_calls
        calls == Pending(mc, module)
        g1 == IF Len(calls) > 0 THEN Push(g, WrapperFrag(module, calls)) ELSE g
    IN  [g1 EXCEPT !.module_calls = [k \in DOMAIN mc \ {module} |-> mc[k]]]

\* a visit_module that names the factory and the start hook before it
\* advances last_module
visit_module_names_early(g, cmd) ==
    IF ~cmd.decodes
    THEN Panic(g)
    ELSE LET g1 == flush_module_calls(g, g.last_module)
             start_module_call == "start_module_" \o ToString(g1.last_module)
             g2 == Push(g1, Frag("factory", "create_module_" \o ToString(g1.last_module),
                                 "", <<>>, <<>>))
             g3 == Push(g2, Frag("start", start_module_call, "", <<>>, <<>>))
             g4 == [g3 EXCEPT !.last_module = g3.last_module + 1]
         IN  PushCall(g4, start_module_call)

\* a visit_module that flushes the previous module after it has emitted the
\* new factory
visit_module_flushes_late(g, cmd) ==
    IF ~cmd.decodes
    THEN Panic(g)
    ELSE LET g2 == [g EXCEPT !.last_module = g.last_module + 1]
             g3 == Push(g2, Frag("factory", "create_module_" \o ToString(g2.last_module),
                                 "", <<>>, <<>>))
             start_module_call == "start_module_" \o ToString(g2.last_module)
             g4 == Push(g3, Frag("start", start_module_call, "", <<>>, <<>>))
             g5 == flush_module_calls(g4, g.last_module)
         IN  PushCall(g5, start_module_call)

\* a visit_module that skips a payload it cannot decode
visit_module_skips_undecodable(g, cmd) ==
    IF ~cmd.decodes
    THEN g
    ELSE LET g1 == flush_module_calls(g, g.last_module)
             g2 == [g1 EXCEPT !.last_module = g1.last_module + 1]
             g3 == Push(g2, Frag("factory", "create_module_" \o ToString(g2.last_module),
                                 "", <<>>, <<>>))
             start_module_call == "start_module_" \o ToString(g2.last_module)
             g4 == Push(g3, Frag("start", start_module_call, "", <<>>, <<>>))
         IN  PushCall(g4, start_module_call)

\* a handler that emits the start hook without registering it
visit_module_start_unregistered(g, cmd) ==
    IF ~cmd.decodes
    THEN Panic(g)
    ELSE LET g1 == flush_module_calls(g, g.last_module)
             g2 == [g1 EXCEPT !.last_module = g1.last_module + 1]
             g3 == Push(g2, Frag("factory", "create_module_" \o ToString(g2.last_module),
                                 "", <<>>, <<>>))
             start_module_call == "start_module_" \o ToString(g2.last_module)
         IN  Push(g3, Frag("start", start_module_call, "", <<>>, <<>>))

visit_module(g, cmd) ==
    IF ~cmd.decodes
    THEN Panic(g)
    ELSE LET g1 == flush_module_calls(g, g.last_module)
             g2 == [g1 EXCEPT !.last_module = g1.last_module + 1]
             g3 == Push(g2, Frag("factory", "create_module_" \o ToString(g2.last_module),
                                 "", <<>>, <<>>))
             start_module_call == "start_module_" \o ToString(g2.last_module)
             g4 == Push(g3, Frag("start", start_module_call, "", <<>>, <<>>))
         IN  PushCall(g4, start_module_call)

\* a handler that also registers its test as a pending unit
visit_assert_invalid_registers(g, cmd) ==
    PushCall(Push(g, Frag("test", command_name(g) \o "_assert_invalid", "", <<>>,
                          <<"assert!(module.is_err())">>)),
             command_name(g) \o "_assert_invalid")

visit_assert_invalid(g, cmd) ==
    Push(g, Frag("test", command_name(g) \o "_assert_invalid", "", <<>>,
                 <<"assert!(module.is_err())">>))

visit_assert_malformed(g, cmd) ==
    Push(g, Frag("test", command_name(g) \o "_assert_malformed", "", <<>>,
                 <<"assert!(compilation.is_err())">>))

QuietNanAssertion == "assert!(match result { F32(fp) | F64(fp) => fp.is_quiet_nan() })"

visit_assert_return_arithmetic_nan(g, action) ==
    IF action.variant = "Invoke"
    THEN LET func_name == command_name(g) \o "_assert_return_arithmetic_nan"
         IN  PushCall(Push(g, Frag("unit", func_name, "", <<>>,
                                   <<action.field, args_values(action.args),
                                     QuietNanAssertion>>)),
                      func_name)
    ELSE g

visit_assert_return_canonical_nan(g, action) ==
    IF action.variant = "Invoke"
    THEN IF action.field \notin {"f64.promote_f32", "f32.promote_f64"}
            /\ Len(action.args) = 0
         THEN Panic(g)      \* &args[0] of an empty Vec
         ELSE LET func_name == command_name(g) \o "_assert_return_canonical_nan"
              IN  PushCall(Push(g, Frag("unit", func_name, "", <<>>,
                                        <<action.field, args_values(action.args),
                                          QuietNanAssertion>>)),
                           func_name)
    ELSE g

\* Option<&Vec<Value>>
Some(vals) == [some |-> TRUE, vals |-> vals]
None == [some |-> FALSE, vals |-> <<>>]

\* an assertion that takes the NaN path for every expected float
action_assertion_nan_for_floats(expected) ==
    IF ~expected.some THEN ""
    ELSE LET e == expected.vals
         IN  IF Len(e) > 0 /\ e[1].ty \in {"F32", "F64"}
             THEN "let expected = " \o wabt2rust_value_bare(e[1])
                    \o "; if let " \o wabt2rust_type_destructure(e[1], "result")
                    \o " = first { assert!(result.is_nan()); "
                    \o "assert_eq!(result.is_sign_positive(), expected.is_sign_positive()); }"
                    \o " as " \o wabt2rust_type(e[1])
             ELSE "assert_eq!(result, "
                    \o (IF Len(e) > 0 THEN "Ok(vec![" \o wabt2rust_value(e[1]) \o "])"
                                      ELSE "Ok(vec![])")
                    \o ");"

\* the assertion visit_action puts into the unit
action_assertion(expected) ==
    IF ~expected.some THEN ""
    ELSE LET e == expected.vals
         IN  IF Len(e) > 0 /\ is_nan(e[1])
             THEN "let expected = " \o wabt2rust_value_bare(e[1])
                    \o "; if let " \o wabt2rust_type_destructure(e[1], "result")
                    \o " = first { assert!(result.is_nan()); "
                    \o "assert_eq!(result.is_sign_positive(), expected.is_sign_positive()); }"
                    \o " as " \o wabt2rust_type(e[1])
             ELSE "assert_eq!(result, "
                    \o (IF Len(e) > 0 THEN "Ok(vec![" \o wabt2rust_value(e[1]) \o "])"
                                      ELSE "Ok(vec![])")
                    \o ");"

\* returns the generator and the Option<String> naming the unit
visit_action(g, action, expected) ==
    IF action.variant = "Invoke"
    THEN LET func_name == command_name(g) \o "_action_invoke"
         IN  [gen |-> Push(g, Frag("unit", func_name, "", <<>>,
                                   <<action.field, args_values(action.args),
                                     action_assertion(expected)>>)),
              some |-> TRUE, name |-> func_name]
    ELSE [gen |-> g, some |-> FALSE, name |-> ""]

\* what visit_assert_return and visit_perform_action do with the result r of
\* visit_action: return when it is None, register the unit otherwise
register_action(r) == IF ~r.some THEN r.gen ELSE PushCall(r.gen, r.name)

visit_assert_return(g, action, expected) ==
    register_action(visit_action(g, action, Some(expected)))

visit_perform_action(g, action) ==
    register_action(visit_action(g, action, None))

\* a visit_assert_trap that also registers the action unit as pending
visit_assert_trap_registers(g, action) ==
    LET r == visit_action(g, action, None)
    IN  IF ~r.some THEN r.gen
        ELSE PushCall(Push(r.gen, Frag("test", command_name(g) \o "_assert_trap",
                                       "create_module_" \o ToString(g.last_module),
                                       <<r.name>>, <<"assert!(result.is_err())">>)),
                      r.name)

\* what visit_assert_trap does with the result r of visit_action: return
\* when it is None, emit the standalone test otherwise
trap_test(r) ==
    IF ~r.some THEN r.gen
    ELSE Push(r.gen, Frag("test", command_name(r.gen) \o "_assert_trap",
                          "create_module_" \o ToString(r.gen.last_module),
                          <<r.name>>, <<"assert!(result.is_err())">>))

visit_assert_trap(g, action) == trap_test(visit_action(g, action, None))

\* a dispatch that runs the action of an AssertExhaustion command
visit_command_exhaustion_invokes(g, cmd) ==
    CASE cmd.kind = "Module" -> visit_module(g, cmd)
      [] cmd.kind = "AssertReturn" -> visit_assert_return(g, cmd.action, cmd.expected)
      [] cmd.kind = "AssertReturnCanonicalNan" ->
            visit_assert_return_canonical_nan(g, cmd.action)
      [] cmd.kind = "AssertReturnArithmeticNan" ->
            visit_assert_return_arithmetic_nan(g, cmd.action)
      [] cmd.kind = "AssertTrap" -> visit_assert_trap(g, cmd.action)
      [] cmd.kind = "AssertInvalid" -> visit_assert_invalid(g, cmd)
      [] cmd.kind = "AssertMalformed" -> visit_assert_malformed(g, cmd)
      [] cmd.kind = "AssertUninstantiable" -> g
      [] cmd.kind = "AssertExhaustion" -> visit_perform_action(g, cmd.action)
      [] cmd.kind = "AssertUnlinkable" -> g
      [] cmd.kind = "Register" -> g
      [] cmd.kind = "PerformAction" -> visit_perform_action(g, cmd.action)

visit_command(g, cmd) ==
    CASE cmd.kind = "Module" -> visit_module(g, cmd)
      [] cmd.kind = "AssertReturn" -> visit_assert_return(g, cmd.action, cmd.expected)
      [] cmd.kind = "AssertReturnCanonicalNan" ->
            visit_assert_return_canonical_nan(g, cmd.action)
      [] cmd.kind = "AssertReturnArithmeticNan" ->
            visit_assert_return_arithmetic_nan(g, cmd.action)
      [] cmd.kind = "AssertTrap" -> visit_assert_trap(g, cmd.action)
      [] cmd.kind = "AssertInvalid" -> visit_assert_invalid(g, cmd)
      [] cmd.kind = "AssertMalformed" -> visit_assert_malformed(g, cmd)
      [] cmd.kind = "AssertUninstantiable" -> g
      [] cmd.kind = "AssertExhaustion" -> g
      [] cmd.kind = "AssertUnlinkable" -> g
      [] cmd.kind = "Register" -> g
      [] cmd.kind = "PerformAction" -> visit_perform_action(g, cmd.action)

\* the body of consume's loop for one command
count_command(g) ==
    IF g.panicked THEN g ELSE [g EXCEPT !.command_no = g.command_no + 1]

\* a loop body that advances command_no before it dispatches
consume_command_counts_first(g, cmd) ==
    LET g1 == [g EXCEPT !.last_line = cmd.line, !.command_no = g.command_no + 1]
        g2 == Push(g1, Frag("line", "", "", <<>>, <<ToString(g1.last_line)>>))
    IN  visit_command(g2, cmd)

consume_command(g, cmd) ==
    LET g1 == [g EXCEPT !.last_line = cmd.line]
        g2 == Push(g1, Frag("line", "", "", <<>>, <<ToString(g1.last_line)>>))
    IN  count_command(visit_command(g2, cmd))

\* flush_module_calls(lo), ..., flush_module_calls(hi), in ascending order;
\* the range is halved, and the generator looked at before each half, so that
\* the evaluation stays shallow
RECURSIVE flush_range(_, _, _)
flush_range(g, lo, hi) ==
    IF g.panicked \/ lo > hi THEN g
    ELSE IF lo = hi THEN flush_module_calls(g, lo)
    ELSE LET mid == (lo + hi) \div 2
         IN  flush_range(flush_range(g, lo, mid), mid + 1, hi)

\* a closing loop that stops one index short
consume_end_stops_short(g) == flush_range(g, 1, g.last_module - 1)

\* for n in 1..self.last_module + 1 { self.flush_module_calls(n) }
consume_end(g) == flush_range(g, 1, g.last_module)

-----------------------------------------------------------------------------
(* The build: build, generate_spectest, consume *)

\* a byte string handed to write, and in the file: which text it is, the test
\* it belongs to, the generated fragments in it, and whether only a part of
\* it reached the file
Chunk(chunk, test, body) == [chunk |-> chunk, test |-> test, body |-> body, cut |-> FALSE]

\* a block whose header is written after the generated script
Block_header_late(test_name, generated_script) ==
    << Chunk("script", "test_" \o test_name, generated_script),
       Chunk("mod_open", "test_" \o test_name, <<>>),
       Chunk("mod_close", "test_" \o test_name, <<>>) >>

\* the three writes of generate_spectest
Block(test_name, generated_script) ==
    << Chunk("mod_open", "test_" \o test_name, <<>>),
       Chunk("script", "test_" \o test_name, generated_script),
       Chunk("mod_close", "test_" \o test_name, <<>>) >>

\* the output file as the writes see it: what it holds, the outcomes to come,
\* and whether a write has returned Err
File(written, outcomes) == [out |-> written, io |-> outcomes, err |-> FALSE]

\* out.write(bytes)?: an Err returns from the caller; an Ok is taken as a
\* full write whatever count it carries
write(f, bytes) ==
    IF f.err THEN f
    ELSE LET r == IF f.io = <<>> THEN "ok" ELSE Head(f.io)
             rest == IF f.io = <<>> THEN <<>> ELSE Tail(f.io)
         IN  CASE r = "ok" -> [f EXCEPT !.out = Append(@, bytes), !.io = rest]
               [] r = "short" ->
                    [f EXCEPT !.out = Append(@, [bytes EXCEPT !.cut = TRUE]), !.io = rest]
               [] r = "err" -> [f EXCEPT !.io = rest, !.err = TRUE]

\* the three writes of generate_spectest, one after the other
write_block(f, block) == write(write(write(f, block[1]), block[2]), block[3])

\* the state of the file after a run of writes; an Err ends build, otherwise
\* the loop of build is at entry n
Wrote(f, n) ==
    /\ out' = f.out
    /\ io' = f.io
    /\ pc' = IF f.err THEN "failed" ELSE "loop"
    /\ test_no' = IF f.err THEN test_no ELSE n

Become(g) ==
    /\ last_module' = g.last_module
    /\ last_line' = g.last_line
    /\ command_no' = g.command_no
    /\ module_calls' = g.module_calls
    /\ buffer' = g.buffer

EmptyCalls == [k \in {} |-> <<>>]

\* what a function of the codec returned: the function and the value
Returned(fn, val) == [fn |-> fn, out |-> val]
NoResult == [fn |-> "", out |-> ""]

InitGenerator ==
    /\ script_parser = [stream |-> <<>>, pos |-> 1]
    /\ last_module = 0
    /\ last_line = 0
    /\ command_no = 0
    /\ module_calls = EmptyCalls
    /\ buffer = <<>>

\* build starts on one of the lists, in one of the environments
InitBuildIn(lists, dirs, outcomes) ==
    /\ tests \in lists
    /\ test_no = 1
    /\ out = <<>>
    /\ pc = "start"
    /\ out_dir \in dirs
    /\ io \in outcomes
    /\ diagnostics = <<>>
    /\ value = I32(0)
    /\ result = NoResult
    /\ InitGenerator

\* build in an environment where the file can be created and every write is
\* complete
InitBuild(lists) == InitBuildIn(lists, {"ok"}, {<<>>})

\* env::var("OUT_DIR").unwrap(), File::create(..)? and the write of COMMON
BuildCreate ==
    /\ pc = "start"
    /\ IF out_dir = "unset"
       THEN /\ pc' = "aborted"
            /\ UNCHANGED <<out, io, test_no>>
       ELSE IF out_dir = "uncreatable"
       THEN /\ pc' = "failed"
            /\ UNCHANGED <<out, io, test_no>>
       ELSE Wrote(write(File(<<>>, io), Chunk("common", "", <<>>)), test_no)
    /\ UNCHANGED <<tests, script_parser, last_module, last_line,
                   command_no, module_calls, buffer>>
    /\ UNCHANGED <<out_dir, diagnostics, value, result>>

\* the loop of build is over: Ok(())
BuildDone ==
    /\ pc = "loop"
    /\ test_no > Len(tests)
    /\ pc' = "done"
    /\ UNCHANGED <<tests, test_no, out, script_parser, last_module, last_line,
                   command_no, module_calls, buffer>>
    /\ UNCHANGED <<out_dir, io, diagnostics, value, result>>

\* generate_spectest begins: WastTestGenerator::new
GeneratorNew ==
    /\ pc = "loop"
    /\ test_no <= Len(tests)
    /\ IF tests[test_no].script.readable
       THEN /\ script_parser' = [stream |-> tests[test_no].script.stream, pos |-> 1]
            /\ last_module' = 0
            /\ last_line' = 0
            /\ command_no' = 0
            /\ module_calls' = EmptyCalls
            /\ buffer' = <<>>
            /\ pc' = "new"
       ELSE /\ pc' = "aborted"
            /\ UNCHANGED <<script_parser, last_module, last_line, command_no,
                           module_calls, buffer>>
    /\ UNCHANGED <<tests, test_no, out>>
    /\ UNCHANGED <<out_dir, io, diagnostics, value, result>>

\* consume begins: the banner
ConsumeBegin ==
    /\ pc = "new"
    /\ buffer' = Append(buffer, Frag("banner", "", "", <<>>, <<>>))
    /\ pc' = "consume"
    /\ UNCHANGED <<tests, test_no, out, script_parser, last_module, last_line,
                   command_no, module_calls>>
    /\ UNCHANGED <<out_dir, io, diagnostics, value, result>>

AtCommand(kind) ==
    /\ pc = "consume"
    /\ script_parser.pos <= Len(script_parser.stream)
    /\ script_parser.stream[script_parser.pos].kind = kind

NextCommand == script_parser.stream[script_parser.pos]

\* one turn of consume's loop: the command is taken from the parser and visited
Turn(g) ==
    /\ Become(g)
    /\ pc' = IF g.panicked THEN "aborted" ELSE "consume"

ConsumeStep ==
    /\ Turn(consume_command(Gen, NextCommand))
    /\ script_parser' = [script_parser EXCEPT !.pos = @ + 1]
    /\ UNCHANGED <<tests, test_no, out>>
    /\ UNCHANGED <<out_dir, io, diagnostics, value, result>>

ConsumeModule ==
    /\ AtCommand("Module")
    /\ ConsumeStep

ConsumeAssertReturn ==
    /\ AtCommand("AssertReturn")
    /\ ConsumeStep

ConsumeAssertReturnCanonicalNan ==
    /\ AtCommand("AssertReturnCanonicalNan")
    /\ ConsumeStep

ConsumeAssertReturnArithmeticNan ==
    /\ AtCommand("AssertReturnArithmeticNan")
    /\ ConsumeStep

ConsumeAssertTrap ==
    /\ AtCommand("AssertTrap")
    /\ ConsumeStep

ConsumeAssertInvalid ==
    /\ AtCommand("AssertInvalid")
    /\ ConsumeStep

ConsumeAssertMalformed ==
    /\ AtCommand("AssertMalformed")
    /\ ConsumeStep

ConsumeAssertUninstantiable ==
    /\ AtCommand("AssertUninstantiable")
    /\ ConsumeStep

ConsumeAssertExhaustion ==
    /\ AtCommand("AssertExhaustion")
    /\ ConsumeStep

ConsumeAssertUnlinkable ==
    /\ AtCommand("AssertUnlinkable")
    /\ ConsumeStep

ConsumeRegister ==
    /\ AtCommand("Register")
    /\ ConsumeStep

ConsumePerformAction ==
    /\ AtCommand("PerformAction")
    /\ ConsumeStep

\* script_parser.next() is an Err: unwrap panics
ConsumeParseError ==
    /\ AtCommand("ParseError")
    /\ pc' = "aborted"
    /\ script_parser' = [script_parser EXCEPT !.pos = @ + 1]
    /\ UNCHANGED <<tests, test_no, out, last_module, last_line, command_no,
                   module_calls, buffer>>
    /\ UNCHANGED <<out_dir, io, diagnostics, value, result>>

\* script_parser.next() is None: the closing flushes, and consume returns
ConsumeEnd ==
    /\ pc = "consume"
    /\ script_parser.pos > Len(script_parser.stream)
    /\ Become(consume_end(Gen))
    /\ pc' = "consumed"
    /\ UNCHANGED <<tests, test_no, out, script_parser>>
    /\ UNCHANGED <<out_dir, io, diagnostics, value, result>>

\* the rest of generate_spectest: the block is written unless the test is fat
WriteBlock ==
    /\ pc = "consumed"
    /\ IF ~is_fat_test(Gen)
       THEN Wrote(write_block(File(out, io), Block(tests[test_no].name, buffer)),
                  test_no + 1)
       ELSE Wrote(File(out, io), test_no + 1)
    /\ UNCHANGED <<tests, script_parser, last_module, last_line, command_no,
                   module_calls, buffer>>
    /\ UNCHANGED <<out_dir, diagnostics, value, result>>

Next ==
    \/ BuildCreate
    \/ BuildDone
    \/ GeneratorNew
    \/ ConsumeBegin
    \/ ConsumeModule
    \/ ConsumeAssertReturn
    \/ ConsumeAssertReturnCanonicalNan
    \/ ConsumeAssertReturnArithmeticNan
    \/ ConsumeAssertTrap
    \/ ConsumeAssertInvalid
    \/ ConsumeAssertMalformed
    \/ ConsumeAssertUninstantiable
    \/ ConsumeAssertExhaustion
    \/ ConsumeAssertUnlinkable
    \/ ConsumeRegister
    \/ ConsumePerformAction
    \/ ConsumeParseError
    \/ ConsumeEnd
    \/ WriteBlock

\* one script, any commands
Init == InitBuild({<<Entry(1, s)>> : s \in ScriptsOver(Kinds, MaxLen)})

Spec == Init /\ [][Next]_vars

\* several short scripts, each of commands of one kind
BuildScripts ==
    {Uniform(kd, n) : kd \in Kinds, n \in 0..MaxBuildLen} \cup {Script(FALSE, <<>>)}

BuildLists == UNION {[1..n -> BuildScripts] : n \in 0..MaxTests}

\* the outcomes of a file that is sound but for one fault: its n-th write is
\* short, or fails, or is short with the next one failing (a full disk, a
\* size limit)
OkRun(n) == [k \in 1..n |-> "ok"]

Faults(last) ==
    {<<>>} \cup {OkRun(n - 1) \o f : n \in 1..last,
                                     f \in {<<"short">>, <<"err">>, <<"short", "err">>}}

\* the environments of build: a sound or faulty file, no OUT_DIR, a file that
\* cannot be created
InitEnvironments(lists, outcomes) ==
    \/ InitBuildIn(lists, {"ok"}, outcomes)
    \/ InitBuildIn(lists, {"unset", "uncreatable"}, {<<>>})

InitBuildLists ==
    InitEnvironments({[i \in 1..Len(l) |-> Entry(i, l[i])] : l \in BuildLists},
                     Faults(MaxFaultAt))

SpecBuild == InitBuildLists /\ [][Next]_vars

\* one script around the fat threshold, all its commands of one kind, alone
\* or with a short script after it
FatLengths == (FatLimit - FatMargin)..(FatLimit + FatMargin)

\* a sound file, one that cuts COMMON short, one that cuts the last write of
\* the first block short, and one with no room at all
FatOutcomes == {<<>>, <<"short">>, <<"ok", "ok", "ok", "short">>, <<"err">>}

InitFat ==
    InitEnvironments(
        {<<Entry(1, Uniform(kd, n)), Entry(2, Uniform(ModuleOk, 1))>> :
              kd \in Kinds, n \in FatLengths}
          \cup {<<Entry(1, Uniform(kd, n))>> : kd \in Kinds, n \in FatLengths},
        FatOutcomes)

SpecFat == InitFat /\ [][Next]_vars

\* one script: a module with one unit pending, then any commands
TailOf(tail) ==
    [k \in 1..(Len(tail) + 2) |->
        IF k = 1 THEN ModuleOk
        ELSE IF k = 2
             THEN Kind("AssertReturn", TRUE, Invoke("add", <<I32(2), I32(3)>>), <<I32(5)>>)
        ELSE tail[k - 2]]

TailScripts ==
    {Script(TRUE, TailOf(tail)) :
        tail \in {t \in SeqsUpTo(Kinds \cup ValueKinds, MaxTail) : EndsAtError(t)}}

InitTail == InitBuild({<<Entry(1, s)>> : s \in TailScripts})

SpecTail == InitTail /\ [][Next]_vars

-----------------------------------------------------------------------------
(* The value codec and the NaN classification, applied to one value *)

\* 32-bit patterns: both signs, exponents zero, low, middle, high and all
\* ones, mantissas with the top bit, lower bits, both and none
F32Patterns ==
    {F32(s, e, m) : s \in 0..1, e \in {0, 1, 127, 128, 254, 255},
                    m \in {0, 1, 2097152, 4194304, 4194305, 8388607}}

\* 64-bit patterns: the same, with exponent 255 for the top three exponent
\* bits clear and the rest set
F64Patterns ==
    {F64(s, e, m[1], m[2]) :
        s \in 0..1, e \in {0, 255, 1023, 2047},
        m \in {<<0, 0>>, <<0, 1>>, <<16777216, 0>>, <<33554432, 0>>,
               <<33554432, 1>>, <<67108863, 67108863>>}}

IntegerValues ==
    {I32(n) : n \in {0, 5, -5, 2147483647, -2147483647 - 1}}
        \cup {I64(n) : n \in {0, 5, -5, 2147483647, -2147483647 - 1}}

\* the values whose literal the model computes: every integer, infinity and
\* NaN, and the finite floats that are zero or a multiple of 1/4
Encodable(v) ==
    IF v.ty \in {"I32", "I64"} THEN TRUE
    ELSE IF is_infinite(v) \/ is_nan_float(v) THEN TRUE
    ELSE Quarters(v) >= 0

Apply(fn, val) ==
    /\ result' = Returned(fn, val)
    /\ UNCHANGED <<tests, test_no, out, pc, script_parser, last_module, last_line,
                   command_no, module_calls, buffer, out_dir, io, diagnostics, value>>

F32IsQuietNan ==
    /\ value.ty = "F32"
    /\ Apply("f32::is_quiet_nan", f32_is_quiet_nan(value))

F32IsCanonicalNan ==
    /\ value.ty = "F32"
    /\ Apply("f32::is_canonical_nan", f32_is_canonical_nan(value))

F64IsQuietNan ==
    /\ value.ty = "F64"
    /\ Apply("f64::is_quiet_nan", f64_is_quiet_nan(value))

F64IsCanonicalNan ==
    /\ value.ty = "F64"
    /\ Apply("f64::is_canonical_nan", f64_is_canonical_nan(value))

Wabt2RustValue ==
    /\ Encodable(value)
    /\ Apply("wabt2rust_value", wabt2rust_value(value))

Wabt2RustValueBare ==
    /\ Encodable(value)
    /\ Apply("wabt2rust_value_bare", wabt2rust_value_bare(value))

NextCodec ==
    \/ F32IsQuietNan
    \/ F32IsCanonicalNan
    \/ F64IsQuietNan
    \/ F64IsCanonicalNan
    \/ Wabt2RustValue
    \/ Wabt2RustValueBare

InitCodec ==
    /\ tests = <<>>
    /\ test_no = 1
    /\ out = <<>>
    /\ pc = "start"
    /\ out_dir = "ok"
    /\ io = <<>>
    /\ diagnostics = <<>>
    /\ InitGenerator
    /\ value \in F32Patterns \cup F64Patterns \cup IntegerValues
    /\ result = NoResult

SpecCodec == InitCodec /\ [][NextCodec]_vars

-----------------------------------------------------------------------------
(* What the commands taken so far should have produced, read off the script *)

Range(f) == {f[x] : x \in DOMAIN f}

Stream == script_parser.stream

\* the commands whose turn of the loop has run to its end
Completed ==
    LET n == script_parser.pos - 1
        cut == pc = "aborted" /\ n > 0 /\ test_no <= Len(tests)
                    /\ tests[test_no].script.readable
    IN  SubSeq(Stream, 1, IF cut THEN n - 1 ELSE n)

\* c{commandIndex}_l{lineNumber} of the k-th command, the index counted from 0
CmdName(k) == "c" \o ToString(k - 1) \o "_l" \o ToString(Stream[k].line)

\* the module index active once the k-th command is done
ModuleIndexAt(k) == Cardinality({j \in 1..k : Stream[j].kind = "Module"})

\* the unit the k-th command registers as pending, "" when it registers none
RegisteredName(k) ==
    LET c == Stream[k]
    IN  IF c.action.variant # "Invoke" THEN ""
        ELSE IF c.kind \in {"AssertReturn", "PerformAction"}
             THEN CmdName(k) \o "_action_invoke"
        ELSE IF c.kind = "AssertReturnArithmeticNan"
             THEN CmdName(k) \o "_assert_return_arithmetic_nan"
        ELSE IF c.kind = "AssertReturnCanonicalNan"
             THEN CmdName(k) \o "_assert_return_canonical_nan"
        ELSE ""

\* the names registered under index i so far, in registration order
ExpectedCalls(i) ==
    LET names == [k \in 1..Len(Completed) |->
                    IF ModuleIndexAt(k) # i THEN ""
                    ELSE IF Stream[k].kind = "Module"
                         THEN "start_module_" \o ToString(i)
                    ELSE RegisteredName(k)]
    IN  SelectSeq(names, LAMBDA n : n # "")

IsFactory(f) == f.frag = "factory"
IsStart(f) == f.frag = "start"
IsWrapper(f) == f.frag = "wrapper"
IsNamed(f) == f.name # ""

NamesOf(frags) == [j \in 1..Len(frags) |-> frags[j].name]

\* where in the buffer the batched wrapper of index i sits
WrappersOf(i) ==
    {j \in 1..Len(buffer) :
        IsWrapper(buffer[j]) /\ buffer[j].name = "test_module_" \o ToString(i)}

WellFormed(stream) ==
    \A k \in 1..Len(stream) :
        stream[k].kind # "ParseError" /\ stream[k].decodes

-----------------------------------------------------------------------------
(* C1 *)

\* C1: last_module is the number of Module commands processed so far (0 at the
\* start, one more per Module command, unchanged by every other kind), and
\* the factories and start hooks in the buffer are create_module_1..N and
\* start_module_1..N in document order, none skipped, none reused.
C1_ModuleNumbering ==
    /\ last_module = ModuleIndexAt(Len(Completed))
    /\ NamesOf(SelectSeq(buffer, IsFactory))
         = [i \in 1..last_module |-> "create_module_" \o ToString(i)]
    /\ NamesOf(SelectSeq(buffer, IsStart))
         = [i \in 1..last_module |-> "start_module_" \o ToString(i)]

\* two Module commands with another command between them, all processed
C1_Witness ==
    /\ pc = "consumed"
    /\ Len(Completed) = 3
    /\ Completed[1].kind = "Module"
    /\ Completed[2].kind = "AssertReturn"
    /\ Completed[3].kind = "Module"
    /\ last_module = 2

-----------------------------------------------------------------------------
(* C2 *)

\* the unit and the test of the k-th command are in no pending sequence and
\* in no batched wrapper's call list
TrapNeverBatched(k) ==
    LET unit == CmdName(k) \o "_action_invoke"
        trap == CmdName(k) \o "_assert_trap"
    IN  /\ \A i \in DOMAIN module_calls :
                {unit, trap} \cap Range(module_calls[i]) = {}
        /\ \A j \in 1..Len(buffer) :
                IsWrapper(buffer[j]) =>
                    {unit, trap} \cap Range(buffer[j].calls) = {}

\* the k-th command emitted, right after its unit, one standalone test
\* c{n}_l{line}_assert_trap that creates its own instance, calls the unit and
\* asserts the failure
TrapTestEmitted(k) ==
    LET unit == CmdName(k) \o "_action_invoke"
        trap == CmdName(k) \o "_assert_trap"
        traps == {j \in 1..Len(buffer) : buffer[j].name = trap}
    IN  /\ Cardinality(traps) = 1
        /\ \A j \in traps :
              /\ buffer[j].frag = "test"
              /\ buffer[j].creates
                    = "create_module_" \o ToString(ModuleIndexAt(k))
              /\ buffer[j].calls = <<unit>>
              /\ buffer[j].detail = <<"assert!(result.is_err())">>
              /\ j > 1
              /\ buffer[j - 1].frag = "unit"
              /\ buffer[j - 1].name = unit

\* C2 as stated: for every AssertTrap command, the action unit is in no
\* pending sequence and in no batched wrapper's call list, and the command
\* emitted, right after the unit, one standalone test c{n}_l{line}_assert_trap
\* that creates its own instance, calls the unit and asserts the failure.
C2_EveryTrapStandalone ==
    \A k \in 1..Len(Completed) :
        Completed[k].kind = "AssertTrap" =>
            /\ TrapNeverBatched(k)
            /\ TrapTestEmitted(k)

\* C2, amended: no AssertTrap command has a unit or a test in a pending
\* sequence or in a batched wrapper's call list; an AssertTrap command whose
\* action is an Invoke also emitted, right after its unit, one standalone
\* test c{n}_l{line}_assert_trap that creates its own instance, calls the
\* unit and asserts the failure; one whose action is not an Invoke emitted
\* neither a unit nor a test.
C2_TrapStandalone ==
    \A k \in 1..Len(Completed) :
        Completed[k].kind = "AssertTrap" =>
            /\ TrapNeverBatched(k)
            /\ IF Completed[k].action.variant = "Invoke"
               THEN TrapTestEmitted(k)
               ELSE \A j \in 1..Len(buffer) :
                        buffer[j].name \notin {CmdName(k) \o "_action_invoke",
                                               CmdName(k) \o "_assert_trap"}

\* a module whose commands are a trap assertion and a return assertion, flushed
C2_Witness ==
    /\ pc = "consumed"
    /\ Len(Completed) = 3
    /\ Completed[1].kind = "Module"
    /\ Completed[2].kind = "AssertTrap"
    /\ Completed[2].action.variant = "Invoke"
    /\ RegisteredName(3) # ""
    /\ WrappersOf(1) # {}

-----------------------------------------------------------------------------
(* C3 *)

\* C3: when consume returns, every module index 1..last_module has been
\* flushed exactly once: the buffer holds exactly one test_module_i, with the
\* units pending for i, and module_calls has no entry for i.
C3_AllFlushedAtReturn ==
    pc = "consumed" =>
        \A i \in 1..last_module :
            /\ Cardinality(WrappersOf(i)) = 1
            /\ \A j \in WrappersOf(i) : buffer[j].calls = ExpectedCalls(i)
            /\ i \notin DOMAIN module_calls

\* the last command of the script left a unit pending on the second module
C3_Witness ==
    /\ pc = "consumed"
    /\ last_module = 2
    /\ Len(Completed) = 3
    /\ RegisteredName(3) # ""

-----------------------------------------------------------------------------
(* C4 *)

\* the names in the call lists of the batched wrappers, one entry per call
WrapperCallSites(name) ==
    {<<j, c>> \in (1..Len(buffer)) \X (1..Len(buffer)) :
        /\ IsWrapper(buffer[j])
        /\ c <= Len(buffer[j].calls)
        /\ buffer[j].calls[c] = name}

\* C4: when consume returns, every name registered under any index, index 0
\* included, is called by exactly one batched wrapper, exactly once.
C4_EveryRegisteredNameFlushedOnce ==
    pc = "consumed" =>
        \A k \in 1..Len(Completed) :
            RegisteredName(k) # "" =>
                Cardinality(WrapperCallSites(RegisteredName(k))) = 1

-----------------------------------------------------------------------------
(* C5 *)

Suffixes ==
    {"_action_invoke", "_assert_trap", "_assert_return_canonical_nan",
     "_assert_return_arithmetic_nan", "_assert_invalid", "_assert_malformed"}

\* the names of the individual units and tests generated between the i-th
\* Module command and the next one
SegmentNames(i) ==
    {CmdName(k) \o suf :
        k \in {j \in 1..Len(Completed) :
                  ModuleIndexAt(j) = i /\ Completed[j].kind # "Module"},
        suf \in Suffixes}

\* C5: test_module_i sits in the buffer after every individual unit generated
\* between the i-th and the (i+1)-th Module command (or the end of the
\* script), and before create_module_{i+1} when there is a next module; it is
\* there as soon as the next module is, and at the end for the last module.
C5_FlushOrdering ==
    \A i \in 1..last_module :
        /\ (i < last_module \/ pc = "consumed") => WrappersOf(i) # {}
        /\ \A w \in WrappersOf(i) :
              /\ \A j \in 1..Len(buffer) :
                    buffer[j].name \in SegmentNames(i) => j < w
              /\ \A j \in 1..Len(buffer) :
                    buffer[j].name = "create_module_" \o ToString(i + 1) => w < j
              /\ \A j \in 1..Len(buffer) :
                    buffer[j].name = "create_module_" \o ToString(i) => j < w

\* module 1 has a unit, then module 2 is defined
C5_Witness ==
    /\ pc = "consumed"
    /\ last_module = 2
    /\ Len(Completed) = 3
    /\ Completed[2].kind = "AssertInvalid" \/ RegisteredName(2) # ""
    /\ Completed[3].kind = "Module"

-----------------------------------------------------------------------------
(* C6 *)

\* C6: the pending sequence of an index holds the registered names in
\* registration order; a flush of a non-empty sequence leaves exactly one
\* wrapper, which creates the instance with create_module_i and calls every
\* name registered under i, in registration order, none omitted, duplicated
\* or reordered; after it module_calls has no entry for i.
C6_FlushEmitsPendingInOrder ==
    /\ \A i \in DOMAIN module_calls :
          /\ module_calls[i] = ExpectedCalls(i)
          /\ WrappersOf(i) = {}
    /\ \A i \in 0..last_module :
          /\ Cardinality(WrappersOf(i)) <= 1
          /\ \A j \in WrappersOf(i) :
                /\ buffer[j].creates = "create_module_" \o ToString(i)
                /\ buffer[j].calls = ExpectedCalls(i)
                /\ buffer[j].calls # <<>>
    /\ \A j \in 1..Len(buffer) :
          IsWrapper(buffer[j]) => \E i \in 0..last_module : j \in WrappersOf(i)

\* a wrapper that calls the start hook and two units
C6_Witness ==
    /\ pc = "consumed"
    /\ \E j \in WrappersOf(1) : Len(buffer[j].calls) = 3

-----------------------------------------------------------------------------
(* C7 *)

\* what the output holds once generate_spectest has returned for the first
\* script: preamble and full block up to 200 commands, the preamble alone
\* above
FirstBlockByCount ==
        LET n == Len(tests[1].script.stream)
        IN  /\ command_no = n
            /\ n <= 200 =>
                  out = << [chunk |-> "common", test |-> "", body |-> <<>>, cut |-> FALSE],
                           [chunk |-> "mod_open", test |-> "test_t1", body |-> <<>>, cut |-> FALSE],
                           [chunk |-> "script", test |-> "test_t1", body |-> buffer, cut |-> FALSE],
                           [chunk |-> "mod_close", test |-> "test_t1", body |-> <<>>, cut |-> FALSE] >>
            /\ n > 200 =>
                  out = << [chunk |-> "common", test |-> "", body |-> <<>>, cut |-> FALSE] >>

\* C7: once generate_spectest has returned for a script, the output holds the
\* script's full namespaced block if the script has at most 200 commands, and
\* nothing of the script if it has more.
C7_FatSuppression ==
    (pc = "loop" /\ test_no = 2) => FirstBlockByCount

\* every write so far put all of its bytes into the file
WholeWrites == \A j \in 1..Len(out) : ~out[j].cut

\* the same, for the builds in which no write was short
FatSuppressionOnWholeWrites ==
    (pc = "loop" /\ test_no = 2 /\ WholeWrites) => FirstBlockByCount

\* a script of 201 commands has been generated and nothing was written for it
C7_Witness ==
    /\ pc = "loop"
    /\ test_no = 2
    /\ Len(tests[1].script.stream) = 201
    /\ command_no = 201
    /\ Len(out) = 1

-----------------------------------------------------------------------------
(* C8 *)

CommandNames ==
    {CmdName(k) \o suf : k \in 1..Len(Completed), suf \in Suffixes}

\* C8: command_no counts the commands processed, so it never decreases and
\* each command is handled under its own value; every unit and test is named
\* after the command that generated it; and no two functions in the buffer
\* have the same name.
C8_NamesUnique ==
    /\ command_no = Len(Completed)
    /\ \A j \in 1..Len(buffer) :
          buffer[j].frag \in {"unit", "test"} => buffer[j].name \in CommandNames
    /\ \A j, k \in 1..Len(buffer) :
          (j # k /\ IsNamed(buffer[j])) => buffer[j].name # buffer[k].name

\* two commands on the same source line, each generating two functions, and
\* a module with its wrapper
C8_Witness ==
    /\ pc = "consumed"
    /\ Len(Completed) = 3
    /\ Completed[1].line = Completed[2].line
    /\ \A k \in 1..2 :
          Completed[k].kind = "AssertTrap" /\ Completed[k].action.variant = "Invoke"
    /\ Completed[3].kind = "Module"
    /\ Cardinality({j \in 1..Len(buffer) : IsNamed(buffer[j])}) = 7

-----------------------------------------------------------------------------
(* C9 *)

\* C9: a script that can be read, every command of which parses and every
\* Module payload of which decodes, is consumed without a panic.
C9_WellFormedNeverAborts ==
    (/\ test_no <= Len(tests)
     /\ tests[test_no].script.readable
     /\ WellFormed(tests[test_no].script.stream)) => pc # "aborted"

-----------------------------------------------------------------------------
(* C10 *)

Failing(c) == c.kind = "ParseError" \/ (c.kind = "Module" /\ ~c.decodes)

LinesIn(frags) == Len(SelectSeq(frags, LAMBDA f : f.frag = "line"))

\* C10: a parse failure or an undecodable Module payload aborts generation at
\* that very command, and after an abort the output holds the preamble and
\* the complete blocks of the scripts processed before, and nothing of the
\* script that failed.
C10_AbortWritesNothing ==
    /\ \A k \in 1..(script_parser.pos - 1) :
          Failing(Stream[k]) => (pc = "aborted" /\ k = script_parser.pos - 1)
    /\ (pc = "aborted" /\ out_dir = "ok") =>
          /\ Len(out) = 1 + 3 * (test_no - 1)
          /\ out[1].chunk = "common"
          /\ \A i \in 1..(test_no - 1) :
                LET name == "test_t" \o ToString(i)
                IN  /\ out[3 * i - 1] = [chunk |-> "mod_open", test |-> name, body |-> <<>>, cut |-> FALSE]
                    /\ out[3 * i].chunk = "script"
                    /\ out[3 * i].test = name
                    /\ ~out[3 * i].cut
                    /\ out[3 * i].body[1].frag = "banner"
                    /\ LinesIn(out[3 * i].body) = Len(tests[i].script.stream)
                    /\ out[3 * i + 1] = [chunk |-> "mod_close", test |-> name, body |-> <<>>, cut |-> FALSE]

\* the same, for the builds in which no write was short
AbortWritesNothingOnWholeWrites == WholeWrites => C10_AbortWritesNothing

\* the second script fails at its first command after the first was written
C10_Witness ==
    /\ pc = "aborted"
    /\ test_no = 2
    /\ Len(out) = 4
    /\ script_parser.pos = 2
    /\ Failing(Stream[1])
    /\ Len(tests[1].script.stream) = 1

-----------------------------------------------------------------------------
(* C11 *)

\* the float's fields, read without going through its bit pattern
ExponentAllOnes(v) == v.exp = (IF v.ty = "F32" THEN 255 ELSE 2047)
MantissaTop(v) == IF v.ty = "F32" THEN v.man \div 4194304 ELSE v.hi \div 33554432

IsQuietNanResult == result.fn \in {"f32::is_quiet_nan", "f64::is_quiet_nan"}

\* C11 as stated: for every 32-bit pattern is_quiet_nan is true when bit 22 is
\* set and false when it is clear, and for every 64-bit pattern it is true
\* when bit 51 is set and false when it is clear, whatever the other bits.
C11_QuietIffTopMantissaBit ==
    IsQuietNanResult => (result.out <=> MantissaTop(value) = 1)

\* C11, amended: is_quiet_nan is true exactly for the patterns that are a NaN
\* (exponent all ones) with bit 22, for 64 bits bit 51, set: every pattern
\* with that bit clear is classified non-quiet whatever its other bits, and
\* so is every pattern with that bit set whose exponent is not all ones.
C11_QuietIffNanWithTopMantissaBit ==
    IsQuietNanResult =>
        (result.out <=> (ExponentAllOnes(value) /\ MantissaTop(value) = 1))

\* a negative 32-bit NaN with bit 22 and a payload bit set was classified
C11_Witness ==
    /\ result.fn = "f32::is_quiet_nan"
    /\ value = [ty |-> "F32", sign |-> 1, exp |-> 255, man |-> 4194305]
    /\ result.out = TRUE

-----------------------------------------------------------------------------
(* C12 *)

\* C12: the f64 is_canonical_nan is true if and only if the pattern is a
\* canonical NaN of either sign: exponent all ones, bit 51 set, every other
\* mantissa bit clear (0x7FF8000000000000 or 0xFFF8000000000000).
C12_F64CanonicalIffCanonicalPattern ==
    result.fn = "f64::is_canonical_nan" =>
        (result.out <=> (/\ value.exp = 2047
                         /\ value.hi = 33554432
                         /\ value.lo = 0))

-----------------------------------------------------------------------------
(* C13 *)

\* C13: the f32 is_canonical_nan is true if and only if the pattern is one of
\* the two canonical NaN patterns 0x7FC00000 and 0xFFC00000: exponent all
\* ones, bit 22 set, every other mantissa bit clear, either sign.
C13_F32CanonicalIffCanonicalPattern ==
    result.fn = "f32::is_canonical_nan" =>
        (result.out <=> (value.exp = 255 /\ value.man = 4194304))

\* the negative canonical NaN 0xFFC00000 was classified canonical
C13_Witness ==
    /\ result.fn = "f32::is_canonical_nan"
    /\ value = [ty |-> "F32", sign |-> 1, exp |-> 255, man |-> 4194304]
    /\ result.out = TRUE

-----------------------------------------------------------------------------
(* C14 *)

(* What a literal denotes as a Rust expression: the value it evaluates to. *)

StartsWith(t, pre) == Len(t) >= Len(pre) /\ SubSeq(t, 1, Len(pre)) = pre
EndsWith(t, post) == Len(t) >= Len(post) /\ SubSeq(t, Len(t) - Len(post) + 1, Len(t)) = post
Strip(t, pre, post) == SubSeq(t, Len(pre) + 1, Len(t) - Len(post))

DigitOf(c) ==
    CASE c = "0" -> 0 [] c = "1" -> 1 [] c = "2" -> 2 [] c = "3" -> 3 [] c = "4" -> 4
      [] c = "5" -> 5 [] c = "6" -> 6 [] c = "7" -> 7 [] c = "8" -> 8 [] c = "9" -> 9

\* a signed decimal integer literal
RECURSIVE ParseDigits(_, _, _, _)
ParseDigits(t, k, unit, acc) ==
    IF k > Len(t) THEN acc
    ELSE ParseDigits(t, k + 1, unit, acc * 10 + unit * DigitOf(SubSeq(t, k, k)))

ParseInt(t) ==
    IF StartsWith(t, "-") THEN ParseDigits(t, 2, -1, 0) ELSE ParseDigits(t, 1, 1, 0)

\* an unsigned decimal literal of up to 64 bits, as four limbs of 16 bits,
\* the least significant first
Times10Plus(L, d) ==
    LET t1 == L[1] * 10 + d
        t2 == L[2] * 10 + t1 \div 65536
        t3 == L[3] * 10 + t2 \div 65536
        t4 == L[4] * 10 + t3 \div 65536
    IN  <<t1 % 65536, t2 % 65536, t3 % 65536, t4 % 65536>>

RECURSIVE ParseLimbs(_, _, _)
ParseLimbs(t, k, L) ==
    IF k > Len(t) THEN L
    ELSE ParseLimbs(t, k + 1, Times10Plus(L, DigitOf(SubSeq(t, k, k))))

\* f32::from_bits and f64::from_bits of a decimal literal
f32_from_bits(t) ==
    LET L == ParseLimbs(t, 1, <<0, 0, 0, 0>>)
    IN  [ty |-> "F32", sign |-> L[2] \div 32768, exp |-> (L[2] % 32768) \div 128,
         man |-> (L[2] % 128) * 65536 + L[1]]

f64_from_bits(t) ==
    LET L == ParseLimbs(t, 1, <<0, 0, 0, 0>>)
    IN  [ty |-> "F64", sign |-> L[4] \div 32768, exp |-> (L[4] % 32768) \div 16,
         hi |-> (L[4] % 16) * 4194304 + L[3] * 64 + L[2] \div 1024,
         lo |-> (L[2] % 1024) * 65536 + L[1]]

\* the float of a width that is q quarters, with the given sign
FromQuarters(ty, sign, q) ==
    LET bias == IF ty = "F32" THEN 127 ELSE 1023
        width == IF ty = "F32" THEN 23 ELSE 26
        p == CHOOSE e \in 0..12 : 2^e <= q /\ q < 2^(e + 1)
        exp == IF q = 0 THEN 0 ELSE bias + p - 2
        frac == IF q = 0 THEN 0 ELSE (q - 2^p) * 2^(width - p)
    IN  IF ty = "F32" THEN [ty |-> "F32", sign |-> sign, exp |-> exp, man |-> frac]
        ELSE [ty |-> "F64", sign |-> sign, exp |-> exp, hi |-> frac, lo |-> 0]

\* a decimal float literal with one to two fraction digits, of the width ty
ParseFloat(ty, t) ==
    LET sign == IF StartsWith(t, "-") THEN 1 ELSE 0
        body == IF sign = 1 THEN SubSeq(t, 2, Len(t)) ELSE t
        dot == CHOOSE k \in 1..Len(body) : SubSeq(body, k, k) = "."
        whole == ParseInt(SubSeq(body, 1, dot - 1))
        fraction == SubSeq(body, dot + 1, Len(body))
        quarter == CASE fraction = "0" -> 0 [] fraction = "25" -> 1
                     [] fraction = "5" -> 2 [] fraction = "75" -> 3
    IN  FromQuarters(ty, sign, whole * 4 + quarter)

\* the value of a scalar expression; a float literal without a suffix, in a
\* place that does not fix its type, is an f64
RECURSIVE EvalScalar(_)
EvalScalar(t) ==
    IF EndsWith(t, " as i32") THEN [ty |-> "I32", v |-> ParseInt(Strip(t, "", " as i32"))]
    ELSE IF EndsWith(t, " as i64") THEN [ty |-> "I64", v |-> ParseInt(Strip(t, "", " as i64"))]
    ELSE IF t = "f32::INFINITY" THEN [ty |-> "F32", sign |-> 0, exp |-> 255, man |-> 0]
    ELSE IF t = "f32::NEG_INFINITY" THEN [ty |-> "F32", sign |-> 1, exp |-> 255, man |-> 0]
    ELSE IF t = "f64::INFINITY" THEN [ty |-> "F64", sign |-> 0, exp |-> 2047, hi |-> 0, lo |-> 0]
    ELSE IF t = "f64::NEG_INFINITY" THEN [ty |-> "F64", sign |-> 1, exp |-> 2047, hi |-> 0, lo |-> 0]
    ELSE IF StartsWith(t, "f32::from_bits(") THEN f32_from_bits(Strip(t, "f32::from_bits(", ")"))
    ELSE IF StartsWith(t, "f64::from_bits(") THEN f64_from_bits(Strip(t, "f64::from_bits(", ")"))
    ELSE IF StartsWith(t, "(") /\ EndsWith(t, ")") THEN EvalScalar(Strip(t, "(", ")"))
    ELSE IF EndsWith(t, "f32") THEN ParseFloat("F32", Strip(t, "", "f32"))
    ELSE IF EndsWith(t, "f64") THEN ParseFloat("F64", Strip(t, "", "f64"))
    ELSE ParseFloat("F64", t)

\* the value of a Value::X(...) expression; it has the variant X, and its
\* argument has to be of that variant's type
EvalValue(t) ==
    LET variant == SubSeq(t, Len("Value::") + 1, Len("Value::F32"))
        scalar == EvalScalar(Strip(t, "Value::F32(", ")"))
    IN  IF StartsWith(t, "Value::") /\ scalar.ty = variant THEN scalar
        ELSE [ty |-> "type error"]

\* C14: the literal of wabt2rust_value and the literal of wabt2rust_value_bare
\* denote the original value, variant and bit pattern: an infinite float
\* gives the INFINITY or NEG_INFINITY constant of its sign, a NaN gives
\* from_bits of its raw bits, and an integer or a finite float (negative zero
\* included) gives a literal of the same variant with the same bits.
C14_LiteralDenotesValue ==
    /\ result.fn = "wabt2rust_value" => EvalValue(result.out) = value
    /\ result.fn = "wabt2rust_value_bare" => EvalScalar(result.out) = value

-----------------------------------------------------------------------------
(* C15 *)

\* the unit that the k-th command emitted through visit_action
ActionUnits(k) ==
    {j \in 1..Len(buffer) :
        buffer[j].frag = "unit" /\ buffer[j].name = CmdName(k) \o "_action_invoke"}

NanPath(expected) == Len(expected) > 0 /\ is_nan(expected[1])

\* C15: the unit of an AssertReturn whose expected sequence does not take the
\* NaN path asserts that the result equals the full expected sequence: the
\* expected side holds every value of the command's expected sequence, in
\* order, whether there are none, one or more.
C15_ReturnAssertsFullSequence ==
    \A k \in 1..Len(Completed) :
        (/\ Completed[k].kind = "AssertReturn"
         /\ Completed[k].action.variant = "Invoke"
         /\ ~NanPath(Completed[k].expected)) =>
            /\ ActionUnits(k) # {}
            /\ \A j \in ActionUnits(k) :
                  buffer[j].detail[3]
                      = "assert_eq!(result, Ok(vec!["
                            \o args_values(Completed[k].expected) \o "]));"

-----------------------------------------------------------------------------
(* C16 *)

\* the scripts generate_spectest has returned for that have at most 200
\* commands, in the order of the list
NonFatDone ==
    SelectSeq([i \in 1..(test_no - 1) |-> i],
              LAMBDA i : Len(tests[i].script.stream) <= 200)

\* C16: the output starts with the shared preamble, written once, whether or
\* not a block follows; after it come the blocks of the non-fat scripts
\* processed so far, in the order of the list, each one contiguous: its
\* header, its generated buffer, its closing brace, and nothing of another
\* script between them.
C16_ArtifactLayout ==
    IF pc = "start" \/ out_dir = "unset" THEN out = <<>>
    ELSE IF pc = "failed" THEN TRUE
    ELSE /\ Len(out) = 1 + 3 * Len(NonFatDone)
         /\ out[1] = [chunk |-> "common", test |-> "", body |-> <<>>, cut |-> FALSE]
         /\ \A j \in 1..Len(NonFatDone) :
               LET i == NonFatDone[j]
                   name == "test_t" \o ToString(i)
               IN  /\ out[3 * j - 1] = [chunk |-> "mod_open", test |-> name, body |-> <<>>, cut |-> FALSE]
                   /\ out[3 * j].chunk = "script"
                   /\ out[3 * j].test = name
                   /\ ~out[3 * j].cut
                   /\ out[3 * j].body[1].frag = "banner"
                   /\ LinesIn(out[3 * j].body) = Len(tests[i].script.stream)
                   /\ out[3 * j + 1] = [chunk |-> "mod_close", test |-> name, body |-> <<>>, cut |-> FALSE]

\* the same, for the builds in which no write was short
ArtifactLayoutOnWholeWrites == WholeWrites => C16_ArtifactLayout

\* the build is over: the first script was fat, and the block of the second
\* follows the preamble directly
C16_Witness ==
    /\ pc = "done"
    /\ Len(tests) = 2
    /\ Len(tests[1].script.stream) = 201
    /\ Len(out) = 4
    /\ out[2].test = "test_t2"

-----------------------------------------------------------------------------
(* C17 *)

\* generate_spectest has just returned for a script of more than 200 commands
FatReturned ==
    /\ pc = "loop"
    /\ test_no >= 2
    /\ Len(tests[test_no - 1].script.stream) > 200

\* C17: when generate_spectest has returned for a fat script and the build
\* goes on with the rest of the list, a diagnostic record of the exclusion
\* has been produced.
C17_FatSuppressionLogged ==
    FatReturned => diagnostics # <<>>

-----------------------------------------------------------------------------
(* C18 *)

IgnoredNames == {"AssertUninstantiable", "AssertExhaustion", "AssertUnlinkable", "Register"}

\* consume is about to take a command of an ignored kind from the parser
AtIgnored ==
    /\ pc = "consume"
    /\ script_parser.pos <= Len(script_parser.stream)
    /\ NextCommand.kind \in IgnoredNames

\* C18: the turn of consume's loop that takes an AssertUninstantiable,
\* AssertExhaustion, AssertUnlinkable or Register command does not abort,
\* keeps last_module and module_calls as they are, and adds nothing to the
\* buffer but the line comment of the command; last_line becomes the line of
\* the command and command_no grows by one.
C18_IgnoredKindsFrame ==
    [][AtIgnored =>
          /\ pc' = "consume"
          /\ last_module' = last_module
          /\ module_calls' = module_calls
          /\ buffer' = Append(buffer, [frag |-> "line", name |-> "", creates |-> "",
                                       calls |-> <<>>,
                                       detail |-> <<ToString(NextCommand.line)>>])
          /\ last_line' = NextCommand.line
          /\ command_no' = command_no + 1]_vars

\* an AssertExhaustion command has been taken while two units of module 1
\* were pending
C18_Witness ==
    /\ pc = "consume"
    /\ script_parser.pos = 4
    /\ script_parser.stream[3].kind = "AssertExhaustion"
    /\ 1 \in DOMAIN module_calls
    /\ Len(module_calls[1]) = 2
    /\ buffer[Len(buffer)].frag = "line"
    /\ command_no = 3

-----------------------------------------------------------------------------
(* C19 *)

\* the standalone tests of a buffer
StandaloneTests(buf) == SelectSeq(buf, LAMBDA f : f.frag = "test")

\* the commands consume has taken so far that satisfy Counted
TakenWhere(Counted(_)) ==
    SelectSeq(SubSeq(script_parser.stream, 1, script_parser.pos - 1), Counted)

IsBinaryAssert(c) == c.kind \in {"AssertInvalid", "AssertMalformed"}

\* consume is about to take an AssertInvalid or AssertMalformed command
AtBinaryAssert ==
    /\ pc = "consume"
    /\ script_parser.pos <= Len(script_parser.stream)
    /\ IsBinaryAssert(NextCommand)

\* the turn that takes an AssertInvalid or AssertMalformed command adds the
\* line comment and exactly one standalone test to the buffer and keeps
\* last_module and module_calls
BinaryAssertFrame ==
    AtBinaryAssert =>
        /\ pc' = "consume"
        /\ Len(buffer') = Len(buffer) + 2
        /\ SubSeq(buffer', 1, Len(buffer)) = buffer
        /\ buffer'[Len(buffer) + 1].frag = "line"
        /\ buffer'[Len(buffer) + 2].frag = "test"
        /\ last_module' = last_module
        /\ module_calls' = module_calls

\* C19 as stated: each AssertInvalid or AssertMalformed command emits one
\* standalone test and keeps last_module and module_calls, and when consume
\* has returned the buffer holds as many standalone tests as the script has
\* AssertInvalid, AssertMalformed and AssertTrap commands.
C19_TestPerBinaryAndTrap ==
    /\ [][BinaryAssertFrame]_vars
    /\ [](pc = "consumed" =>
            Len(StandaloneTests(buffer))
                = Len(TakenWhere(LAMBDA c : IsBinaryAssert(c) \/ c.kind = "AssertTrap")))

\* C19, amended: each AssertInvalid or AssertMalformed command emits one
\* standalone test and keeps last_module and module_calls, and when consume
\* has returned the buffer holds as many standalone tests as the script has
\* AssertInvalid and AssertMalformed commands and AssertTrap commands whose
\* action is an Invoke.
C19_TestPerBinaryAndInvokedTrap ==
    /\ [][BinaryAssertFrame]_vars
    /\ [](pc = "consumed" =>
            Len(StandaloneTests(buffer))
                = Len(TakenWhere(LAMBDA c : \/ IsBinaryAssert(c)
                                            \/ /\ c.kind = "AssertTrap"
                                               /\ c.action.variant = "Invoke")))

\* consume has returned for a script with an AssertInvalid command and an
\* AssertTrap whose action is not an Invoke: one standalone test
C19_Witness ==
    /\ pc = "consumed"
    /\ Len(script_parser.stream) = 4
    /\ script_parser.stream[3].kind = "AssertInvalid"
    /\ script_parser.stream[4].kind = "AssertTrap"
    /\ script_parser.stream[4].action.variant = "Get"
    /\ Len(StandaloneTests(buffer)) = 1
    /\ Pending(module_calls, 1) = <<>>

-----------------------------------------------------------------------------
(* C20 *)

\* consume is about to take a command from the parser and visit it
AtVisit ==
    /\ pc = "consume"
    /\ script_parser.pos <= Len(script_parser.stream)
    /\ NextCommand.kind # "ParseError"

\* every unit and test the turn adds to the buffer is named after command
\* index n and the line of the command taken
NewNamesUse(n) ==
    \A j \in (Len(buffer) + 1)..Len(buffer') :
        buffer'[j].frag \in {"unit", "test"} =>
            StartsWith(buffer'[j].name,
                       "c" \o ToString(n) \o "_l" \o ToString(NextCommand.line) \o "_")

\* last_line and command_no after a turn that did not panic
TurnCounts ==
    pc' = "consume" => /\ last_line' = NextCommand.line
                       /\ command_no' = command_no + 1

\* C20 as stated: the handler of the k-th command of the stream runs with
\* last_line set to the line of the command and command_no already advanced
\* to k, and names its units c{k}_l{line}.
C20_CountsBeforeDispatch ==
    [][AtVisit => /\ TurnCounts
                  /\ NewNamesUse(script_parser.pos)]_vars

\* C20, amended: the handler of the k-th command of the stream runs with
\* last_line set to the line of the command and command_no still k - 1, names
\* its units c{k-1}_l{line}, and command_no becomes k when it has returned.
C20_CountsAfterDispatch ==
    [][AtVisit => /\ TurnCounts
                  /\ command_no = script_parser.pos - 1
                  /\ NewNamesUse(script_parser.pos - 1)]_vars

\* the second command of a script, an AssertReturn on line 1, has been
\* visited: its unit is named after index 1 and command_no is now 2
C20_Witness ==
    /\ pc = "consume"
    /\ script_parser.pos = 3
    /\ script_parser.stream[2].kind = "AssertReturn"
    /\ command_no = 2
    /\ last_line = 1
    /\ buffer[Len(buffer)].frag = "unit"
    /\ buffer[Len(buffer)].name = "c1_l1_action_invoke"

-----------------------------------------------------------------------------
(* C21 *)

RegisteringNames ==
    {"AssertReturn", "PerformAction", "AssertReturnCanonicalNan",
     "AssertReturnArithmeticNan"}

\* consume is about to take a command of a registering kind whose action is
\* an Invoke
AtRegistering ==
    /\ pc = "consume"
    /\ script_parser.pos <= Len(script_parser.stream)
    /\ NextCommand.kind \in RegisteringNames
    /\ NextCommand.action.variant = "Invoke"

\* the turn appends one name, that of the unit it emitted, to the pending
\* sequence of last_module and keeps last_module and every other sequence
OneUnitRegistered ==
    /\ last_module' = last_module
    /\ DOMAIN module_calls' = DOMAIN module_calls \cup {last_module}
    /\ module_calls'[last_module]
          = Append(Pending(module_calls, last_module), buffer'[Len(buffer')].name)
    /\ buffer'[Len(buffer')].frag = "unit"
    /\ \A k \in DOMAIN module_calls \ {last_module} : module_calls'[k] = module_calls[k]

\* C21: each AssertReturn, PerformAction, AssertReturnCanonicalNan and
\* AssertReturnArithmeticNan command with an Invoke action appends exactly
\* one unit name to the pending sequence of last_module and leaves
\* last_module and the pending sequence of every other index unchanged.
C21_InvokeRegistersOneUnit ==
    [][AtRegistering => OneUnitRegistered]_vars

\* the same, for the turns of consume that return
C21_ReturnedInvokeRegistersOneUnit ==
    [][(AtRegistering /\ pc' = "consume") => OneUnitRegistered]_vars

-----------------------------------------------------------------------------
(* C22 *)

\* a float whose exponent field is all ones and whose mantissa is not zero
NanPattern(v) ==
    IF v.ty = "F32" THEN v.exp = 255 /\ v.man # 0
    ELSE IF v.ty = "F64" THEN v.exp = 2047 /\ (v.hi # 0 \/ v.lo # 0)
    ELSE FALSE

\* an expected value is present and it is a float NaN
ExpectsNan(c) ==
    c.kind = "AssertReturn" /\ Len(c.expected) > 0 /\ NanPattern(c.expected[1])

\* the assertion a: it binds `expected` to an expression that denotes a NaN
\* of the variant and sign of e, and then checks the variant of the result,
\* that the result is a NaN, and that the two signs agree; nothing else
IsNanAssertion(a, e) ==
    LET pre == "let expected = "
        sep == "; if let "
        cuts == {k \in 1..(Len(a) - Len(sep) + 1) : SubSeq(a, k, k + Len(sep) - 1) = sep}
        cut == CHOOSE k \in cuts : TRUE
        bound == EvalScalar(SubSeq(a, Len(pre) + 1, cut - 1))
        variant == IF e.ty = "F32" THEN "Value::F32(result)" ELSE "Value::F64(result)"
        float == IF e.ty = "F32" THEN "f32" ELSE "f64"
    IN  /\ StartsWith(a, pre)
        /\ cuts # {}
        /\ bound.ty = e.ty
        /\ NanPattern(bound)
        /\ bound.sign = e.sign
        /\ SubSeq(a, cut + Len(sep), Len(a))
              = variant \o " = first { assert!(result.is_nan()); "
                  \o "assert_eq!(result.is_sign_positive(), expected.is_sign_positive()); }"
                  \o " as " \o float

\* the commands whose action goes through visit_action
ThroughVisitAction(c) ==
    /\ c.kind \in {"AssertReturn", "PerformAction", "AssertTrap"}
    /\ c.action.variant = "Invoke"

\* C22: the unit visit_action emits carries the NaN assertion exactly when
\* the command has an expected value and that value is a float NaN; the
\* NaN assertion checks the variant of the result, that it is a NaN and
\* that its sign is the sign of the expected value, and nothing of the
\* payload; a command with no expected sequence gets no assertion, and one
\* with an expected value that is not a NaN gets the equality assertion.
C22_NanPathIffExpectedNan ==
    \A k \in 1..Len(Completed) :
        ThroughVisitAction(Completed[k]) =>
            /\ ActionUnits(k) # {}
            /\ \A j \in ActionUnits(k) :
                  LET a == buffer[j].detail[3]
                  IN  IF Completed[k].kind # "AssertReturn" THEN a = ""
                      ELSE IF ExpectsNan(Completed[k])
                      THEN IsNanAssertion(a, Completed[k].expected[1])
                      ELSE StartsWith(a, "assert_eq!(result, ")

\* a script whose tail is a return assertion expecting a negative 64-bit NaN
\* with a payload, then one expecting the 32-bit float 0.5
C22_Witness ==
    /\ pc = "consumed"
    /\ Len(Completed) = 4
    /\ Completed[3].action.field = "f64.nan"
    /\ Completed[4].action.field = "f32.half"
    /\ \E j \in ActionUnits(3) :
          StartsWith(buffer[j].detail[3],
                     "let expected = f64::from_bits(18444492273895866369); if let Value::F64")
    /\ \E j \in ActionUnits(4) : StartsWith(buffer[j].detail[3], "assert_eq!")

-----------------------------------------------------------------------------
(* C23 *)

\* the indices flush_module_calls is called with, and one beyond
FlushIndices == 0..(last_module + 1)

\* C23: in every state of the generator, a flush of an index with no
\* pending call leaves the buffer as it is, a second flush of an index
\* changes nothing after the first, and the buffer holds at most one wrapper
\* test_module_i for each index i, also after the closing flushes have gone
\* again over the indices flushed at a module boundary.
C23_FlushIdempotent ==
    pc \in {"consume", "consumed"} =>
        \A i \in FlushIndices :
            /\ Pending(module_calls, i) = <<>> =>
                  flush_module_calls(Gen, i).buffer = buffer
            /\ flush_module_calls(flush_module_calls(Gen, i), i)
                  = flush_module_calls(Gen, i)
            /\ Cardinality(WrappersOf(i)) <= 1

\* consume has returned for a script with two modules: index 1 was flushed
\* when the second module began and again at the end, and has one wrapper
C23_Witness ==
    /\ pc = "consumed"
    /\ last_module = 2
    /\ Cardinality(WrappersOf(1)) = 1
    /\ Cardinality(WrappersOf(2)) = 1
    /\ DOMAIN module_calls = {}

-----------------------------------------------------------------------------
(* C24 *)

StartName(i) == "start_module_" \o ToString(i)

\* the functions and tests of the buffer, by name, in the order written
WrittenNames == NamesOf(SelectSeq(buffer, IsNamed))

\* C24: from the moment a Module command has defined index i and as long as
\* i is the current index, the pending sequence of i exists and starts with
\* start_module_i; once the next module has begun, or consume has returned,
\* test_module_i exists, calls start_module_i first and the other units of
\* the module after it. A script of one Module and one AssertReturn yields
\* exactly create_module_1, the start hook, one action unit, and
\* test_module_1 calling the start hook and then the action unit.
C24_StartHookFirst ==
    pc \in {"consume", "consumed"} =>
        /\ (pc = "consume" /\ last_module >= 1) =>
              /\ last_module \in DOMAIN module_calls
              /\ Head(module_calls[last_module]) = StartName(last_module)
        /\ \A i \in 1..last_module :
              (i < last_module \/ pc = "consumed") =>
                  /\ WrappersOf(i) # {}
                  /\ \A j \in WrappersOf(i) :
                        /\ Head(buffer[j].calls) = StartName(i)
                        /\ Tail(buffer[j].calls)
                              = SelectSeq(ExpectedCalls(i), LAMBDA n : n # StartName(i))
        /\ (/\ pc = "consumed"
            /\ Len(Stream) = 2
            /\ Stream[1].kind = "Module"
            /\ Stream[2].kind = "AssertReturn"
            /\ Stream[2].action.variant = "Invoke") =>
              /\ WrittenNames = <<"create_module_1", "start_module_1",
                                  "c1_l1_action_invoke", "test_module_1">>
              /\ buffer[Len(buffer)].calls = <<"start_module_1", "c1_l1_action_invoke">>

\* consume has returned for a script of two modules, the first with a unit
\* of its own: both wrappers exist and the first calls two units
C24_Witness ==
    /\ pc = "consumed"
    /\ last_module = 2
    /\ Stream[3].kind = "Module"
    /\ \E j \in WrappersOf(1) : Len(buffer[j].calls) = 2
    /\ \E j \in WrappersOf(2) : buffer[j].calls = <<"start_module_2">>

-----------------------------------------------------------------------------
(* C25 *)

\* the factory the fragment at j calls was defined for an index in
\* 1..last_module, earlier in the buffer
FactoryDefinedBefore(j) ==
    \E k \in 1..last_module :
        /\ buffer[j].creates = "create_module_" \o ToString(k)
        /\ \E d \in 1..(j - 1) :
              IsFactory(buffer[d]) /\ buffer[d].name = buffer[j].creates

\* C25: every batched wrapper and every standalone trap test in the buffer
\* calls a factory create_module_k with k in 1..last_module whose definition
\* stands earlier in the buffer, whatever the command stream, also when an
\* action or a trap command comes before the first Module command.
C25_FactoriesDefinedBeforeUse ==
    \A j \in 1..Len(buffer) :
        buffer[j].creates # "" => FactoryDefinedBefore(j)

====
